---- MODULE Spec2Model ----
(***************************************************************************)
(* airBuddy: the sensor acquisition and scheduling core.                   *)
(*                                                                         *)
(*   src/src/sensors/air.py   AirSensor (sampling engine, CSV log,         *)
(*                            background scheduler thread)                 *)
(*   src/src/main.py          main() (foreground orchestrator)             *)
(*                                                                         *)
(* Two threads run: "fg" (the caller of the engine: main()'s loop, or an   *)
(* arbitrary client of the public methods) and "bg" (the _runner closure   *)
(* of start_periodic_logging).  Every action is one step of one thread;    *)
(* a step reads or writes shared state at most at one source line, so the  *)
(* interleavings of the model are those of the two Python threads.         *)
(*                                                                         *)
(* Time is a discrete clock, now, advanced by Tick.  Floats (temp_c,       *)
(* humidity) are integers counting thousandths.                            *)
(***************************************************************************)
EXTENDS Integers, Sequences, FiniteSets, TLC

\* ------------------------------------------------------------------ bounds
MaxTime == 3        \* the clock stops here
MaxLog  == 1        \* the chips stop answering once the file holds more
                    \* than this many rows (the header included)
MaxTimeMain == 4    \* where the clock stops under main(): a button cycle
                    \* begun after a whole scheduler warmup can end

\* ------------------------------------------- durations, in clock ticks
\* The source's durations scaled down, their order kept:
\*   0.1 s < 0.2 s <= 1.0 s <= 2.0 s < 6 s, 30 s < 600 s.
PauseNap      == 0  \* time.sleep(0.1): less than one tick
Slice         == 1  \* min(0.2, warmup_left), time.sleep(0.2)
RetrySoon     == 1  \* next_time = time.time() + 1.0
JoinTimeout   == 1  \* self._scheduler_thread.join(timeout=2.0)
ButtonWarmup  == 2  \* begin_sampling(warmup_seconds=6), spin(duration=6)
SchedWarmup   == 2  \* start_periodic_logging(warmup_seconds=30)
SchedInterval == 3  \* start_periodic_logging(interval_seconds=600)

Threads == {"fg", "bg"}

None == -1          \* Optional[float] = None, for _warmup_until

\* ---------------------------------------------------------------- readings
\* What the two chips can answer to one _read_once: temp_c and humidity in
\* thousandths (22.256 C, 55.128 %), eco2_ppm, tvoc_ppb, aqi.
DeviceSamples ==
    { [temp_c |-> 22256, humidity |-> 55128, eco2_ppm |-> 800, tvoc_ppb |-> 120, aqi |-> 3] }

\* A faulty variant of _rating_from_aqi: the aqi == 3 case is missing, and 3
\* falls through to "Poor".
RatingNoOk(aqi) ==
    IF aqi <= 1 THEN "Very good"
    ELSE IF aqi = 2 THEN "Good"
    ELSE "Poor"

_rating_from_aqi(aqi) ==
    IF aqi <= 1 THEN "Very good"
    ELSE IF aqi = 2 THEN "Good"
    ELSE IF aqi = 3 THEN "Ok"
    ELSE "Poor"

\* AirReading(...) as _read_once builds it.
AirReading(ts, s, source) ==
    [timestamp_iso |-> ts, temp_c |-> s.temp_c, humidity |-> s.humidity,
     eco2_ppm |-> s.eco2_ppm, tvoc_ppb |-> s.tvoc_ppb, aqi |-> s.aqi,
     rating |-> _rating_from_aqi(s.aqi), source |-> source]

\* "No AirReading": the value of a result slot that holds none.
NoReading ==
    [timestamp_iso |-> None, temp_c |-> 0, humidity |-> 0, eco2_ppm |-> 0,
     tvoc_ppb |-> 0, aqi |-> 0, rating |-> "", source |-> ""]

\* ----------------------------------------------------------------- CSV log
\* f"{x:.2f}": x (thousandths) rounded to the nearest hundredth, ties to even;
\* the text read back by float() is that hundredth, again in thousandths.
Fmt2(x) ==
    LET q == x \div 10
        m == x % 10
    IN  IF m > 5 \/ (m = 5 /\ q % 2 = 1) THEN (q + 1) * 10 ELSE q * 10

\* A row of the file: n is the number of its fields, num whether its numeric
\* fields parse with float().
HeaderRow ==
    [n |-> 8, num |-> FALSE, timestamp_iso |-> None, temp_c |-> 0, humidity |-> 0,
     eco2_ppm |-> 0, tvoc_ppb |-> 0, aqi |-> 0, rating |-> "rating", source |-> "source"]

\* A faulty variant of CsvRow: temp_c and humidity written with one decimal less.
CsvRowTruncated(r) ==
    [n |-> 8, num |-> TRUE, timestamp_iso |-> r.timestamp_iso,
     temp_c |-> (r.temp_c \div 100) * 100, humidity |-> (r.humidity \div 100) * 100,
     eco2_ppm |-> r.eco2_ppm, tvoc_ppb |-> r.tvoc_ppb, aqi |-> r.aqi,
     rating |-> r.rating, source |-> r.source]

\* The row w.writerow([...]) writes for r.
CsvRow(r) ==
    [n |-> 8, num |-> TRUE, timestamp_iso |-> r.timestamp_iso,
     temp_c |-> Fmt2(r.temp_c), humidity |-> Fmt2(r.humidity),
     eco2_ppm |-> r.eco2_ppm, tvoc_ppb |-> r.tvoc_ppb, aqi |-> r.aqi,
     rating |-> r.rating, source |-> r.source]

\* The AirReading get_last_logged builds from a row of 8 numeric fields.
ParseRow(row) ==
    [timestamp_iso |-> row.timestamp_iso, temp_c |-> row.temp_c,
     humidity |-> row.humidity, eco2_ppm |-> row.eco2_ppm,
     tvoc_ppb |-> row.tvoc_ppb, aqi |-> row.aqi, rating |-> row.rating,
     source |-> row.source]

\* A faulty variant of LastOf: the try/except of lines 157-175 is missing, and a
\* row whose numbers do not parse gives no None.
RECURSIVE LastOfUncaught(_, _)
LastOfUncaught(f, i) ==
    IF i < 2 THEN NoReading
    ELSE IF f[i].n < 8 THEN LastOfUncaught(f, i - 1)
    ELSE ParseRow(f[i])

\* for row in reversed(rows[1:]): skip short rows, parse the first long one;
\* float() raising on it ends the whole lookup with None.
RECURSIVE LastOf(_, _)
LastOf(f, i) ==
    IF i < 2 THEN NoReading
    ELSE IF f[i].n < 8 THEN LastOf(f, i - 1)
    ELSE IF f[i].num THEN ParseRow(f[i])
    ELSE NoReading

\* A faulty variant of get_last_logged: rows[1:] is not reversed, the first
\* data row is taken.
GetLastTakesFirst(f) == IF Len(f) < 2 THEN NoReading ELSE LastOf(f, 2)

\* A faulty variant of get_last_logged: rows[2:] instead of rows[1:].
GetLastSkipsTwo(f) == IF Len(f) < 3 THEN NoReading ELSE LastOf(f, Len(f))

\* lines 154-177
get_last_logged(f) == IF Len(f) = 0 THEN NoReading ELSE LastOf(f, Len(f))


\* ------------------------------------------------------------------- state
VARIABLES
    now,            \* time.time(), in ticks
    lock,           \* self._lock: "free", or the thread holding it
    avail,          \* _available(): self._ens and self._aht are set
    logfile,        \* the rows of self.log_path, the header first
    warmup_until,   \* self._warmup_until (None when no session is open)
    warmup_source,  \* self._warmup_source ("" when None)
    stop_event,     \* self._stop_event.is_set()
    pause_event,    \* self._pause_event.is_set()
    alive,          \* the _runner threads alive: self._scheduler_thread
                    \* .is_alive() is alive > 0
    pc,             \* per thread: the place it is at
    call,           \* per thread: the engine call it is in (see Frame)
    wake,           \* per thread: the time its time.sleep() ends
    next_time,      \* _runner's next_time
    warmup_left,    \* _runner's warmup_left
    cycle,          \* _runner's current cycle, for the record (see NoCycle)
    m,              \* main()'s locals: reading, cached, tag
    finished        \* the client's last finish_sampling found a session open
                    \* and returned a reading, and no session was opened since

vars == <<now, lock, avail, logfile, warmup_until, warmup_source, stop_event,
          pause_event, alive, pc, call, wake, next_time, warmup_left, cycle, m,
          finished>>

engine == <<avail, logfile, warmup_until, warmup_source>>
sched  == <<stop_event, pause_event, alive>>
runner == <<next_time, warmup_left, cycle>>
locals == <<m, finished>>

\* The frame of one call of a public method by one thread.
\*   op      the method: "sample", "begin", "is_ready", "finish", "start",
\*           "stop" (the log's own operations: "read", "append")
\*   source, log, warmup   its arguments
\*   r       the AirReading it returned (NoReading: none)
\*   exc     the error it raised: "", "warmup" (Warmup not complete yet),
\*           "nofallback" (Sensor read failed and no fallback record exists)
\*   ready   what is_ready returned
\*   reads   the _read_once calls made so far by the call
\*   reinits the _try_init calls of line 253 made so far by the call
\*   fresh   whether a _read_once of the call succeeded
\*   log0    the file when the call entered sample_blocking's locked body
\*   session whether finish_sampling found a session open
NoFrame ==
    [op |-> "", source |-> "", log |-> FALSE, warmup |-> 0, r |-> NoReading,
     exc |-> "", ready |-> FALSE, reads |-> 0, reinits |-> 0, fresh |-> FALSE,
     log0 |-> <<>>,
     session |-> FALSE]

Frame(op, source, log, warmup) ==
    [NoFrame EXCEPT !.op = op, !.source = source, !.log = log, !.warmup = warmup]

\* The record of the _runner cycle under way.
\*   warming   the warmup loop of lines 356-363 has been entered
\*   paused    pause_event was set at some moment of the warmup
\*   slices    warmup slices slept in full
\*   after     of these, the slices that ended after pause_event was set
NoCycle == [warming |-> FALSE, paused |-> FALSE, slices |-> 0, after |-> 0]

\* main()'s locals; exc: the error the except clause caught ("" when none);
\* skip: the except clause ended in continue.
NoLocals ==
    [reading |-> NoReading, cached |-> FALSE, tag |-> "", exc |-> "", skip |-> FALSE]

InitCommon ==
    /\ now = 0
    /\ lock = "free"
    /\ avail \in BOOLEAN                  \* line 73: _try_init(), non-fatal
    /\ logfile = <<HeaderRow>>            \* line 70: _ensure_log_header()
    /\ warmup_until = None
    /\ warmup_source = ""
    /\ stop_event = FALSE
    /\ pause_event = FALSE
    /\ call = [t \in Threads |-> NoFrame]
    /\ wake = [t \in Threads |-> 0]
    /\ next_time = 0
    /\ warmup_left = 0
    /\ cycle = NoCycle
    /\ m = NoLocals
    /\ finished = FALSE

\* Time passes.
Tick ==
    /\ now < MaxTime
    /\ now' = now + 1
    /\ UNCHANGED <<lock, engine, sched, pc, call, wake, runner, locals>>

\* A faulty variant of Acquire: the body is entered without waiting for the lock.
AcquireNoWait(t, p, q) ==
    /\ pc[t] = p
    /\ lock' = t
    /\ pc' = [pc EXCEPT ![t] = q]
    /\ UNCHANGED <<now, engine, sched, call, wake, runner, locals>>

\* `with self._lock:` entered by t at place p, going on at q.
Acquire(t, p, q) ==
    /\ pc[t] = p
    /\ lock = "free"
    /\ lock' = t
    /\ pc' = [pc EXCEPT ![t] = q]
    /\ UNCHANGED <<now, engine, sched, call, wake, runner, locals>>


\* The end of a public method: t is back in its caller, the frame holding the
\* result.
Return(t) == [pc EXCEPT ![t] = "ret"]

\* ------------------------------------------------ _try_init, _read_once
\* What _try_init() can leave _available() at: the import or the bus fails, or
\* both chips answer.
TryInit == BOOLEAN

\* The answer of a failed _read_once (not initialized, or the bus raised).
ReadError ==
    [temp_c |-> 0, humidity |-> 0, eco2_ppm |-> 0, tvoc_ppb |-> 0, aqi |-> -1]

\* What one _read_once can answer in the current state.
ReadAnswers ==
    IF avail /\ Len(logfile) <= MaxLog THEN DeviceSamples \cup {ReadError}
    ELSE {ReadError}

\* ---------------------------------------------------------- sample_blocking
\* line 237: with self._lock
SbLock(t) == Acquire(t, "sb_lock", "sb_init")

\* lines 239-244: init if needed; start the blocking warmup
SbInit(t) ==
    /\ pc[t] = "sb_init"
    /\ avail' \in (IF avail THEN {TRUE} ELSE TryInit)
    /\ call' = [call EXCEPT ![t].log0 = logfile]
    /\ IF call[t].warmup > 0
         THEN /\ wake' = [wake EXCEPT ![t] = now + call[t].warmup]
              /\ pc' = [pc EXCEPT ![t] = "sb_warm"]
         ELSE /\ pc' = [pc EXCEPT ![t] = "sb_read1"]
              /\ UNCHANGED wake
    /\ UNCHANGED <<now, lock, logfile, warmup_until, warmup_source, sched, runner, locals>>

\* line 244: time.sleep(warmup_seconds) ends
SbWarm(t) ==
    /\ pc[t] = "sb_warm"
    /\ now >= wake[t]
    /\ wake' = [wake EXCEPT ![t] = 0]
    /\ pc' = [pc EXCEPT ![t] = "sb_read1"]
    /\ UNCHANGED <<now, lock, engine, sched, call, runner, locals>>

\* r = self._read_once(source=source) at place p; when it raises go on at q.
\* A reading with log=False is returned at once.
ReadOnce(t, p, q) ==
    /\ pc[t] = p
    /\ \E s \in ReadAnswers :
         IF s # ReadError
           THEN /\ call' = [call EXCEPT ![t].r = AirReading(now, s, call[t].source),
                                         ![t].reads = @ + 1,
                                         ![t].fresh = TRUE]
                /\ IF call[t].log
                     THEN pc' = [pc EXCEPT ![t] = "sb_append"] /\ UNCHANGED lock
                     ELSE pc' = Return(t) /\ lock' = "free"
           ELSE /\ call' = [call EXCEPT ![t].reads = @ + 1]
                /\ pc' = [pc EXCEPT ![t] = q]
                /\ UNCHANGED lock
    /\ UNCHANGED <<now, engine, sched, wake, runner, locals>>

\* A faulty variant of SbRead1: a failed first read goes to the fallback at
\* once, without re-initialization and retry.
SbRead1NoRetry(t) == ReadOnce(t, "sb_read1", "sb_fallback")

\* line 247
SbRead1(t) == ReadOnce(t, "sb_read1", "sb_reinit")

\* A faulty variant of SbAppend: the sampling session is reset as the row is
\* written.
SbAppendEndsSession(t) ==
    /\ pc[t] = "sb_append"
    /\ logfile' = Append(logfile, CsvRow(call[t].r))
    /\ warmup_until' = None
    /\ warmup_source' = ""
    /\ lock' = "free"
    /\ pc' = Return(t)
    /\ UNCHANGED <<now, avail, sched, call, wake, runner, locals>>

\* lines 249-250, 257-258: self._append_log(r); return r
SbAppend(t) ==
    /\ pc[t] = "sb_append"
    /\ logfile' = Append(logfile, CsvRow(call[t].r))
    /\ lock' = "free"
    /\ pc' = Return(t)
    /\ UNCHANGED <<now, avail, warmup_until, warmup_source, sched, call, wake, runner, locals>>

\* line 253: self._try_init()
SbReinit(t) ==
    /\ pc[t] = "sb_reinit"
    /\ avail' \in TryInit
    /\ call' = [call EXCEPT ![t].reinits = @ + 1]
    /\ pc' = [pc EXCEPT ![t] = "sb_read2"]
    /\ UNCHANGED <<now, lock, logfile, warmup_until, warmup_source, sched, wake,
                   runner, locals>>

\* line 255
SbRead2(t) == ReadOnce(t, "sb_read2", "sb_fallback")

\* A faulty variant of FallbackReading: the fallback keeps the logged provenance.
FallbackKeepsSource(last) == [last EXCEPT !.timestamp_iso = now]

\* lines 264-273: the AirReading built from the last logged one
FallbackReading(last) ==
    [timestamp_iso |-> now, temp_c |-> last.temp_c, humidity |-> last.humidity,
     eco2_ppm |-> last.eco2_ppm, tvoc_ppb |-> last.tvoc_ppb, aqi |-> last.aqi,
     rating |-> last.rating, source |-> "fallback"]

\* A faulty variant of FallbackResult: with no record, a reading of zeros is
\* returned instead of raising.
FallbackNeverRaises(last) == [exc |-> "", r |-> FallbackReading(last)]

\* lines 262-273: raise when there is no last record, else return its copy
FallbackResult(last) ==
    IF last = NoReading THEN [exc |-> "nofallback", r |-> NoReading]
    ELSE [exc |-> "", r |-> FallbackReading(last)]

\* A faulty variant of SbFallback: the copy is appended like a fresh reading.
SbFallbackLogged(t) ==
    /\ pc[t] = "sb_fallback"
    /\ LET res == FallbackResult(get_last_logged(logfile))
       IN  /\ call' = [call EXCEPT ![t].exc = res.exc, ![t].r = res.r]
           /\ logfile' = IF res.exc = "" /\ call[t].log
                            THEN Append(logfile, CsvRow(res.r)) ELSE logfile
    /\ lock' = "free"
    /\ pc' = Return(t)
    /\ UNCHANGED <<now, avail, warmup_until, warmup_source, sched, wake, runner, locals>>

\* A faulty variant of SbFallback: the raise of line 263 leaves the lock held.
SbFallbackRaisesLocked(t) ==
    /\ pc[t] = "sb_fallback"
    /\ LET res == FallbackResult(get_last_logged(logfile))
       IN  /\ call' = [call EXCEPT ![t].exc = res.exc, ![t].r = res.r]
           /\ lock' = IF res.exc = "" THEN "free" ELSE lock
    /\ pc' = Return(t)
    /\ UNCHANGED <<now, engine, sched, wake, runner, locals>>

\* lines 261-273: fall back to the last logged value, or raise
SbFallback(t) ==
    /\ pc[t] = "sb_fallback"
    /\ LET res == FallbackResult(get_last_logged(logfile))
       IN  call' = [call EXCEPT ![t].exc = res.exc, ![t].r = res.r]
    /\ lock' = "free"
    /\ pc' = Return(t)
    /\ UNCHANGED <<now, engine, sched, wake, runner, locals>>

\* ----------------------------------------- begin_sampling, is_ready, finish
\* line 283
BsLock(t) == Acquire(t, "bs_lock", "bs_body")

\* A faulty variant of BsBody: the warmup is slept out before the call returns.
BsBodySleeps(t) ==
    /\ pc[t] = "bs_body"
    /\ now + (IF call[t].warmup > 0 THEN call[t].warmup ELSE 0) <= MaxTime
    /\ now' = now + (IF call[t].warmup > 0 THEN call[t].warmup ELSE 0)
    /\ avail' \in (IF avail THEN {TRUE} ELSE TryInit)
    /\ warmup_until' = now'
    /\ warmup_source' = call[t].source
    /\ finished' = FALSE
    /\ lock' = "free"
    /\ pc' = Return(t)
    /\ UNCHANGED <<logfile, sched, call, wake, runner, m>>

\* A faulty variant of BsBody: a session that is open is left as it is.
BsBodyKeepsOpen(t) ==
    /\ pc[t] = "bs_body"
    /\ avail' \in (IF avail THEN {TRUE} ELSE TryInit)
    /\ warmup_until' = IF warmup_until # None THEN warmup_until
                       ELSE now + (IF call[t].warmup > 0 THEN call[t].warmup ELSE 0)
    /\ warmup_source' = IF warmup_until # None THEN warmup_source ELSE call[t].source
    /\ finished' = FALSE
    /\ lock' = "free"
    /\ pc' = Return(t)
    /\ UNCHANGED <<now, logfile, sched, call, wake, runner, m>>

\* lines 284-287
BsBody(t) ==
    /\ pc[t] = "bs_body"
    /\ avail' \in (IF avail THEN {TRUE} ELSE TryInit)
    /\ warmup_until' = now + (IF call[t].warmup > 0 THEN call[t].warmup ELSE 0)
    /\ warmup_source' = call[t].source
    /\ finished' = FALSE
    /\ lock' = "free"
    /\ pc' = Return(t)
    /\ UNCHANGED <<now, logfile, sched, call, wake, runner, m>>

\* line 290
IrLock(t) == Acquire(t, "ir_lock", "ir_body")

\* A faulty variant of IrBody: ready only after the deadline, not at it.
IrBodyStrict(t) ==
    /\ pc[t] = "ir_body"
    /\ call' = [call EXCEPT ![t].ready = (warmup_until = None \/ now > warmup_until)]
    /\ lock' = "free"
    /\ pc' = Return(t)
    /\ UNCHANGED <<now, engine, sched, wake, runner, locals>>

\* lines 291-293
IrBody(t) ==
    /\ pc[t] = "ir_body"
    /\ call' = [call EXCEPT ![t].ready = (warmup_until = None \/ now >= warmup_until)]
    /\ lock' = "free"
    /\ pc' = Return(t)
    /\ UNCHANGED <<now, engine, sched, wake, runner, locals>>

\* line 299
FsLock(t) == Acquire(t, "fs_lock", "fs_body")

\* A faulty variant of SessionSource: no default when no session is open.
SessionSourceNoDefault == warmup_source

\* line 300: source = self._warmup_source or "button"
SessionSource == IF warmup_source # "" THEN warmup_source ELSE "button"

\* A faulty variant of WarmupNotComplete: the deadline is not looked at.
WarmupUnchecked == FALSE

\* line 301: self._warmup_until is not None and time.time() < self._warmup_until
WarmupNotComplete == warmup_until # None /\ now < warmup_until

\* A faulty variant of FsBody: line 308 is inside the `with` block, and
\* sample_blocking is called with the lock held.
FsBodyKeepsLock(t) ==
    /\ pc[t] = "fs_body"
    /\ IF WarmupNotComplete
         THEN /\ call' = [call EXCEPT ![t].exc = "warmup", ![t].session = TRUE]
              /\ lock' = "free"
              /\ pc' = Return(t)
              /\ UNCHANGED <<warmup_until, warmup_source>>
         ELSE /\ call' = [call EXCEPT ![t].source = SessionSource,
                                       ![t].session = (warmup_until # None)]
              /\ warmup_until' = None
              /\ warmup_source' = ""
              /\ pc' = [pc EXCEPT ![t] = "sb_lock"]
              /\ UNCHANGED lock
    /\ UNCHANGED <<now, avail, logfile, sched, wake, runner, locals>>

\* lines 300-306; the lock is released before line 308 calls sample_blocking
FsBody(t) ==
    /\ pc[t] = "fs_body"
    /\ lock' = "free"
    /\ IF WarmupNotComplete
         THEN /\ call' = [call EXCEPT ![t].exc = "warmup", ![t].session = TRUE]
              /\ pc' = Return(t)
              /\ UNCHANGED <<warmup_until, warmup_source>>
         ELSE /\ call' = [call EXCEPT ![t].source = SessionSource,
                                       ![t].session = (warmup_until # None)]
              /\ warmup_until' = None
              /\ warmup_source' = ""
              /\ pc' = [pc EXCEPT ![t] = "sb_lock"]
    /\ UNCHANGED <<now, avail, logfile, sched, wake, runner, locals>>

\* ----------------------------------------------- pause / resume (313-324)
\* The _runner is inside its interruptible warmup (lines 356-363).
InWarmup == pc["bg"] \in {"run_wloop", "run_wpause", "run_wsleep"}

\* line 318, with the record of a pause that falls into a warmup
pause_periodic_logging ==
    /\ pause_event' = TRUE
    /\ cycle' = IF InWarmup THEN [cycle EXCEPT !.paused = TRUE] ELSE cycle

\* line 324
resume_periodic_logging == pause_event' = FALSE


\* ------------------------------------------ start_periodic_logging (329-385)
\* A faulty variant of start_periodic_logging: lines 336-337 are missing, a
\* thread is made whether or not one is alive.
StartUnchecked(t, q) ==
    /\ stop_event' = FALSE
    /\ alive' = alive + 1
    /\ pc' = [pc EXCEPT ![t] = q, !["bg"] = "run_init"]

\* lines 336-339, 380-385: no-op when the thread is alive
start_periodic_logging(t, q) ==
    IF alive > 0
      THEN /\ pc' = [pc EXCEPT ![t] = q]
           /\ UNCHANGED <<stop_event, alive>>
      ELSE /\ stop_event' = FALSE
           /\ alive' = alive + 1
           /\ pc' = [pc EXCEPT ![t] = q, !["bg"] = "run_init"]

\* line 342
RunInit ==
    /\ pc["bg"] = "run_init"
    /\ next_time' = now
    /\ pc' = [pc EXCEPT !["bg"] = "run_top"]
    /\ UNCHANGED <<now, lock, engine, sched, call, wake, warmup_left, cycle, locals>>

\* A faulty variant of RunTop: `while True`, the stop flag is not looked at.
RunTopForever ==
    /\ pc["bg"] = "run_top"
    /\ pc' = [pc EXCEPT !["bg"] = "run_pause"]
    /\ UNCHANGED <<now, lock, engine, sched, call, wake, runner, locals>>

\* line 344: while not self._stop_event.is_set()
RunTop ==
    /\ pc["bg"] = "run_top"
    /\ IF stop_event
         THEN /\ pc' = [pc EXCEPT !["bg"] = "dead"]
              /\ alive' = alive - 1
         ELSE /\ pc' = [pc EXCEPT !["bg"] = "run_pause"]
              /\ UNCHANGED alive
    /\ UNCHANGED <<now, lock, engine, stop_event, pause_event, call, wake, runner, locals>>

\* lines 346-347: if paused, sleep 0.1 (and continue, see RunNap)
RunPause ==
    /\ pc["bg"] = "run_pause"
    /\ IF pause_event
         THEN /\ wake' = [wake EXCEPT !["bg"] = now + PauseNap]
              /\ pc' = [pc EXCEPT !["bg"] = "run_nap"]
         ELSE /\ pc' = [pc EXCEPT !["bg"] = "run_due"]
              /\ UNCHANGED wake
    /\ UNCHANGED <<now, lock, engine, sched, call, runner, locals>>

\* A faulty variant of RunDue: no cycle is ever due.
RunDueNever ==
    /\ pc["bg"] = "run_due"
    /\ wake' = [wake EXCEPT !["bg"] = now + Slice]
    /\ pc' = [pc EXCEPT !["bg"] = "run_nap"]
    /\ UNCHANGED <<now, lock, engine, sched, call, runner, locals>>

\* lines 350-354: a cycle is due, or sleep 0.2 (line 378)
RunDue ==
    /\ pc["bg"] = "run_due"
    /\ IF now >= next_time
         THEN /\ warmup_left' = SchedWarmup
              /\ cycle' = [NoCycle EXCEPT !.warming = TRUE, !.paused = pause_event]
              /\ pc' = [pc EXCEPT !["bg"] = "run_wloop"]
              /\ UNCHANGED wake
         ELSE /\ wake' = [wake EXCEPT !["bg"] = now + Slice]
              /\ pc' = [pc EXCEPT !["bg"] = "run_nap"]
              /\ UNCHANGED <<warmup_left, cycle>>
    /\ UNCHANGED <<now, lock, engine, sched, call, next_time, locals>>

\* line 356: while warmup_left > 0 and not self._stop_event.is_set()
RunWarmLoop ==
    /\ pc["bg"] = "run_wloop"
    /\ pc' = [pc EXCEPT !["bg"] =
                IF warmup_left > 0 /\ ~stop_event THEN "run_wpause" ELSE "run_chkp"]
    /\ UNCHANGED <<now, lock, engine, sched, call, wake, runner, locals>>

\* lines 358-362: break when paused, else sleep one slice
RunWarmPause ==
    /\ pc["bg"] = "run_wpause"
    /\ IF pause_event
         THEN /\ pc' = [pc EXCEPT !["bg"] = "run_chkp"]
              /\ UNCHANGED wake
         ELSE /\ wake' = [wake EXCEPT !["bg"] =
                             now + (IF Slice < warmup_left THEN Slice ELSE warmup_left)]
              /\ pc' = [pc EXCEPT !["bg"] = "run_wsleep"]
    /\ UNCHANGED <<now, lock, engine, sched, call, runner, locals>>

\* lines 362-363: the slice is slept; warmup_left -= step
RunWarmSlept ==
    /\ pc["bg"] = "run_wsleep"
    /\ now >= wake["bg"]
    /\ warmup_left' = warmup_left - (IF Slice < warmup_left THEN Slice ELSE warmup_left)
    /\ cycle' = [cycle EXCEPT !.slices = @ + 1,
                              !.after = IF cycle.paused THEN @ + 1 ELSE @]
    /\ wake' = [wake EXCEPT !["bg"] = 0]
    /\ pc' = [pc EXCEPT !["bg"] = "run_wloop"]
    /\ UNCHANGED <<now, lock, engine, sched, call, next_time, locals>>

\* line 367: next_time = time.time() + 1.0
RetryAt == now + RetrySoon

\* A faulty variant of PausedAtCheck: line 366 tests the stop flag only.
PausedNotTested == FALSE

\* line 366, first operand: self._pause_event.is_set()
PausedAtCheck == pause_event

\* lines 366-368, the pause flag: abandon the cycle and retry soon
RunCheckPause ==
    /\ pc["bg"] = "run_chkp"
    /\ IF PausedAtCheck
         THEN /\ next_time' = RetryAt
              /\ cycle' = NoCycle
              /\ pc' = [pc EXCEPT !["bg"] = "run_top"]
         ELSE /\ pc' = [pc EXCEPT !["bg"] = "run_chks"]
              /\ UNCHANGED <<next_time, cycle>>
    /\ UNCHANGED <<now, lock, engine, sched, call, wake, warmup_left, locals>>

\* lines 366-372, the stop flag: abandon, or call
\* sample_blocking(warmup_seconds=0, source="scheduled", log=True)
RunCheckStop ==
    /\ pc["bg"] = "run_chks"
    /\ IF stop_event
         THEN /\ next_time' = RetryAt
              /\ cycle' = NoCycle
              /\ pc' = [pc EXCEPT !["bg"] = "run_top"]
              /\ UNCHANGED call
         ELSE /\ call' = [call EXCEPT !["bg"] = Frame("sample", "scheduled", TRUE, 0)]
              /\ pc' = [pc EXCEPT !["bg"] = "sb_lock"]
              /\ UNCHANGED <<next_time, cycle>>
    /\ UNCHANGED <<now, lock, engine, sched, wake, warmup_left, locals>>

\* A faulty variant of RunSampled: the try/except of lines 371-374 is missing,
\* and an error of the call ends the thread.
RunSampledUncaught ==
    /\ pc["bg"] = "ret"
    /\ cycle' = NoCycle
    /\ call' = [call EXCEPT !["bg"] = NoFrame]
    /\ IF call["bg"].exc # ""
         THEN /\ pc' = [pc EXCEPT !["bg"] = "dead"]
              /\ alive' = alive - 1
              /\ UNCHANGED <<next_time, wake>>
         ELSE /\ next_time' = now + SchedInterval
              /\ wake' = [wake EXCEPT !["bg"] = now + Slice]
              /\ pc' = [pc EXCEPT !["bg"] = "run_nap"]
              /\ UNCHANGED alive
    /\ UNCHANGED <<now, lock, engine, stop_event, pause_event, warmup_left, locals>>

\* lines 373-378: the call returned or raised (swallowed); schedule the next
\* cycle and sleep 0.2
RunSampled ==
    /\ pc["bg"] = "ret"
    /\ next_time' = now + SchedInterval
    /\ cycle' = NoCycle
    /\ call' = [call EXCEPT !["bg"] = NoFrame]
    /\ wake' = [wake EXCEPT !["bg"] = now + Slice]
    /\ pc' = [pc EXCEPT !["bg"] = "run_nap"]
    /\ UNCHANGED <<now, lock, engine, sched, warmup_left, locals>>

\* lines 347-348, 378: time.sleep() ends; back to line 344
RunNap ==
    /\ pc["bg"] = "run_nap"
    /\ now >= wake["bg"]
    /\ wake' = [wake EXCEPT !["bg"] = 0]
    /\ pc' = [pc EXCEPT !["bg"] = "run_top"]
    /\ UNCHANGED <<now, lock, engine, sched, call, runner, locals>>

Runner ==
    \/ RunInit \/ RunTop \/ RunPause \/ RunDue
    \/ RunWarmLoop \/ RunWarmPause \/ RunWarmSlept
    \/ RunCheckPause \/ RunCheckStop \/ RunSampled \/ RunNap


\* =================================================== main() (src/src/main.py)
\* line 48: air.start_periodic_logging(interval_seconds=600, warmup_seconds=30)
MainStart ==
    /\ pc["fg"] = "m_start"
    /\ start_periodic_logging("fg", "idle")
    /\ UNCHANGED <<now, lock, engine, pause_event, call, wake, runner, locals>>

\* lines 54-63, 79-80: Idle; the button gives "single" or "double"
MainIdle ==
    /\ pc["fg"] = "idle"
    /\ \E action \in {"single", "double"} :
         IF action = "double"
           THEN pc' = [pc EXCEPT !["fg"] = "settings"] /\ UNCHANGED m
           ELSE pc' = [pc EXCEPT !["fg"] = "m_pause"] /\ m' = NoLocals
    /\ UNCHANGED <<now, lock, engine, sched, call, wake, runner, finished>>

\* lines 64-73: Settings, and back to Idle
MainSettings ==
    /\ pc["fg"] = "settings"
    /\ pc' = [pc EXCEPT !["fg"] = "idle"]
    /\ UNCHANGED <<now, lock, engine, sched, call, wake, runner, locals>>

\* lines 84-87: pause the scheduler, call begin_sampling(6, "button")
MainPause ==
    /\ pc["fg"] = "m_pause"
    /\ pause_periodic_logging
    /\ call' = [call EXCEPT !["fg"] = Frame("begin", "button", FALSE, ButtonWarmup)]
    /\ pc' = [pc EXCEPT !["fg"] = "bs_lock"]
    /\ UNCHANGED <<now, lock, engine, stop_event, alive, wake, next_time, warmup_left,
                   locals>>

\* line 88, spinner.py line 97: end_time = time.time() + duration
MainSpin ==
    /\ pc["fg"] = "ret"
    /\ call["fg"].op = "begin"
    /\ wake' = [wake EXCEPT !["fg"] = now + ButtonWarmup]
    /\ call' = [call EXCEPT !["fg"] = NoFrame]
    /\ pc' = [pc EXCEPT !["fg"] = "m_spin"]
    /\ UNCHANGED <<now, lock, engine, sched, runner, locals>>

\* spinner.py line 101 ends the spin; line 89: call finish_sampling(log=True)
MainFinish ==
    /\ pc["fg"] = "m_spin"
    /\ now >= wake["fg"]
    /\ wake' = [wake EXCEPT !["fg"] = 0]
    /\ call' = [call EXCEPT !["fg"] = Frame("finish", "", TRUE, 0)]
    /\ pc' = [pc EXCEPT !["fg"] = "fs_lock"]
    /\ UNCHANGED <<now, lock, engine, sched, runner, locals>>

\* A faulty variant of MainFinished: lines 92-93 are missing, cached stays False.
MainFinishedNeverCached ==
    /\ pc["fg"] = "ret"
    /\ call["fg"].op = "finish"
    /\ IF call["fg"].exc = ""
         THEN /\ m' = [m EXCEPT !.reading = call["fg"].r]
              /\ pc' = [pc EXCEPT !["fg"] = "m_finally"]
         ELSE /\ pc' = [pc EXCEPT !["fg"] = "m_except"]
              /\ m' = [m EXCEPT !.exc = call["fg"].exc]
    /\ call' = [call EXCEPT !["fg"] = NoFrame]
    /\ UNCHANGED <<now, lock, engine, sched, wake, runner, finished>>

\* lines 89-95: the reading, cached when its source is "fallback"; or the
\* except clause
MainFinished ==
    /\ pc["fg"] = "ret"
    /\ call["fg"].op = "finish"
    /\ IF call["fg"].exc = ""
         THEN /\ m' = [m EXCEPT !.reading = call["fg"].r,
                                !.cached = (call["fg"].r.source = "fallback")]
              /\ pc' = [pc EXCEPT !["fg"] = "m_finally"]
         ELSE /\ pc' = [pc EXCEPT !["fg"] = "m_except"]
              /\ m' = [m EXCEPT !.exc = call["fg"].exc]
    /\ call' = [call EXCEPT !["fg"] = NoFrame]
    /\ UNCHANGED <<now, lock, engine, sched, wake, runner, finished>>

\* A faulty variant of MainExcept: last is not tested for None, and is shown
\* as cached whatever it is.
MainExceptShowsLast ==
    /\ pc["fg"] = "m_except"
    /\ m' = [m EXCEPT !.reading = get_last_logged(logfile), !.cached = TRUE]
    /\ pc' = [pc EXCEPT !["fg"] = "m_finally"]
    /\ UNCHANGED <<now, lock, engine, sched, call, wake, runner, finished>>

\* lines 97-105: last = air.get_last_logged(); the error screen, or the last
\* reading shown as cached
MainExcept ==
    /\ pc["fg"] = "m_except"
    /\ LET last == get_last_logged(logfile)
       IN  IF last = NoReading
             THEN /\ pc' = [pc EXCEPT !["fg"] = "m_error"]
                  /\ UNCHANGED m
             ELSE /\ m' = [m EXCEPT !.reading = last, !.cached = TRUE]
                  /\ pc' = [pc EXCEPT !["fg"] = "m_finally"]
    /\ UNCHANGED <<now, lock, engine, sched, call, wake, runner, finished>>

\* lines 99-102: "Sensor error" shown for 3 s, then continue
MainError ==
    /\ pc["fg"] = "m_error"
    /\ m' = [m EXCEPT !.skip = TRUE]
    /\ pc' = [pc EXCEPT !["fg"] = "m_finally"]
    /\ UNCHANGED <<now, lock, engine, sched, call, wake, runner, finished>>

\* A faulty variant of MainResumes: the finally clause is an else clause, skipped
\* when the except clause ran into continue.
ResumeUnlessSkipped == IF m.skip THEN UNCHANGED pause_event ELSE resume_periodic_logging

\* lines 107-109: finally: air.resume_periodic_logging()
MainResumes == resume_periodic_logging

\* lines 107-114: the finally clause, then Idle (continue) or the tag and the
\* display sequence
MainFinally ==
    /\ pc["fg"] = "m_finally"
    /\ MainResumes
    /\ IF m.skip
         THEN /\ pc' = [pc EXCEPT !["fg"] = "idle"]
              /\ UNCHANGED m
         ELSE /\ pc' = [pc EXCEPT !["fg"] = "displaying"]
              /\ m' = [m EXCEPT !.tag = IF m.cached THEN "cached" ELSE "just now"]
    /\ UNCHANGED <<now, lock, engine, stop_event, alive, call, wake, runner, finished>>

\* lines 116-133: the display sequence, and back to Idle
MainDisplay ==
    /\ pc["fg"] = "displaying"
    /\ pc' = [pc EXCEPT !["fg"] = "idle"]
    /\ UNCHANGED <<now, lock, engine, sched, call, wake, runner, locals>>

Main ==
    \/ MainStart \/ MainIdle \/ MainSettings \/ MainPause \/ MainSpin
    \/ MainFinish \/ MainFinished \/ MainExcept \/ MainError \/ MainFinally
    \/ MainDisplay

\* Time passes under main().
TickMain ==
    /\ now < MaxTimeMain
    /\ now' = now + 1
    /\ UNCHANGED <<lock, engine, sched, pc, call, wake, runner, locals>>

\* AirSensor() is constructed (main.py line 45); main() is at line 48.
Init ==
    /\ InitCommon
    /\ alive = 0
    /\ pc = [t \in Threads |-> IF t = "fg" THEN "m_start" ELSE "none"]

\* The steps of sample_blocking that main() and the _runner reach (they pass
\* warmup_seconds=0).
SampleNoWarmup(t) ==
    \/ SbLock(t) \/ SbInit(t) \/ SbRead1(t) \/ SbAppend(t)
    \/ SbReinit(t) \/ SbRead2(t) \/ SbFallback(t)

Next ==
    \/ TickMain
    \/ Main
    \/ Runner
    \/ \E t \in Threads : SampleNoWarmup(t)
    \/ BsLock("fg") \/ BsBody("fg") \/ FsLock("fg") \/ FsBody("fg")

\* The program: main() with its scheduler thread.
Spec == Init /\ [][Next]_vars


\* ================================================ a client of the engine
\* Any caller of the sampling session's methods (begin_sampling, is_ready,
\* finish_sampling), one call at a time, in any order and at any time, next to
\* the running scheduler thread.
ClientWarmups == {0, ButtonWarmup}

\* t calls method op with these arguments, entering it at place p.
Enter(t, p, op, source, log, warmup) ==
    /\ pc[t] = "cli"
    /\ call' = [call EXCEPT ![t] = Frame(op, source, log, warmup)]
    /\ pc' = [pc EXCEPT ![t] = p]
    /\ UNCHANGED <<now, lock, engine, sched, wake, runner, locals>>

\* air.begin_sampling(warmup_seconds, source="button")
ClientBegin == \E w \in ClientWarmups : Enter("fg", "bs_lock", "begin", "button", FALSE, w)

\* air.is_ready()
ClientIsReady == Enter("fg", "ir_lock", "is_ready", "", FALSE, 0)

\* air.finish_sampling(log)
ClientFinish == \E lg \in BOOLEAN : Enter("fg", "fs_lock", "finish", "", lg, 0)

\* The call is over: the client has its result.
ClientReturn ==
    /\ pc["fg"] = "ret"
    /\ finished' = IF call["fg"].op = "finish" /\ call["fg"].session
                      THEN call["fg"].r # NoReading
                      ELSE finished
    /\ call' = [call EXCEPT !["fg"] = NoFrame]
    /\ pc' = [pc EXCEPT !["fg"] = "cli"]
    /\ UNCHANGED <<now, lock, engine, sched, wake, runner, m>>

Client == ClientBegin \/ ClientIsReady \/ ClientFinish \/ ClientReturn

\* AirSensor() is constructed and start_periodic_logging() has started the
\* scheduler thread, as main.py lines 45-48 do.
InitApi ==
    /\ InitCommon
    /\ alive = 1
    /\ pc = [t \in Threads |-> IF t = "fg" THEN "cli" ELSE "run_init"]

NextApi ==
    \/ Tick
    \/ Client
    \/ Runner
    \/ \E t \in Threads : SampleNoWarmup(t)
    \/ BsLock("fg") \/ BsBody("fg") \/ IrLock("fg") \/ IrBody("fg")
    \/ FsLock("fg") \/ FsBody("fg")

\* The engine and its scheduler thread under an arbitrary client.
SpecApi == InitApi /\ [][NextApi]_vars


\* ============================================ a caller with its own source
\* A caller that opens sessions of source "manual" and finishes them, at any
\* time, next to the running scheduler thread.
ManualBegin == Enter("fg", "bs_lock", "begin", "manual", FALSE, ButtonWarmup)

ManualFinish == Enter("fg", "fs_lock", "finish", "", TRUE, 0)

NextManual ==
    \/ Tick
    \/ ManualBegin \/ ManualFinish \/ ClientReturn
    \/ Runner
    \/ \E t \in Threads : SampleNoWarmup(t)
    \/ BsLock("fg") \/ BsBody("fg") \/ FsLock("fg") \/ FsBody("fg")

SpecManual == InitApi /\ [][NextManual]_vars

\* ============================================ a controller of the scheduler
\* Any caller of pause_periodic_logging, resume_periodic_logging,
\* start_periodic_logging and stop_periodic_logging, one call at a time, in any
\* order and at any time, next to the scheduler thread.

\* air.pause_periodic_logging()
CtlPause ==
    /\ pc["fg"] = "cli"
    /\ ~pause_event
    /\ pause_periodic_logging
    /\ UNCHANGED <<now, lock, engine, stop_event, alive, pc, call, wake, next_time,
                   warmup_left, locals>>

\* air.resume_periodic_logging()
CtlResume ==
    /\ pc["fg"] = "cli"
    /\ pause_event
    /\ resume_periodic_logging
    /\ UNCHANGED <<now, lock, engine, stop_event, alive, pc, call, wake, runner, locals>>

\* air.start_periodic_logging()
CtlStart ==
    /\ pc["fg"] = "cli"
    /\ start_periodic_logging("fg", "cli")
    /\ call' = [call EXCEPT !["fg"] = Frame("start", "", FALSE, 0)]
    /\ UNCHANGED <<now, lock, engine, pause_event, wake, runner, locals>>

\* air.stop_periodic_logging(), line 388: self._stop_event.set()
CtlStop ==
    /\ pc["fg"] = "cli"
    /\ stop_event' = TRUE
    /\ call' = [call EXCEPT !["fg"] = Frame("stop", "", FALSE, 0)]
    /\ pc' = [pc EXCEPT !["fg"] = "stop_clear"]
    /\ UNCHANGED <<now, lock, engine, pause_event, alive, wake, runner, locals>>

\* lines 389-391: self._pause_event.clear(); join the thread if it is alive
CtlStopClear ==
    /\ pc["fg"] = "stop_clear"
    /\ pause_event' = FALSE
    /\ IF alive > 0
         THEN /\ wake' = [wake EXCEPT !["fg"] = now + JoinTimeout]
              /\ pc' = [pc EXCEPT !["fg"] = "stop_join"]
         ELSE /\ pc' = [pc EXCEPT !["fg"] = "cli"]
              /\ UNCHANGED wake
    /\ UNCHANGED <<now, lock, engine, stop_event, alive, call, runner, locals>>

\* line 391: join(timeout=2.0) returns, the thread ended or the time up
CtlStopJoined ==
    /\ pc["fg"] = "stop_join"
    /\ alive = 0 \/ now >= wake["fg"]
    /\ wake' = [wake EXCEPT !["fg"] = 0]
    /\ pc' = [pc EXCEPT !["fg"] = "cli"]
    /\ UNCHANGED <<now, lock, engine, sched, call, runner, locals>>

NextCtl ==
    \/ Tick
    \/ CtlPause \/ CtlResume
    \/ CtlStart \/ CtlStop \/ CtlStopClear \/ CtlStopJoined
    \/ Runner
    \/ SampleNoWarmup("bg")

\* The scheduler thread under an arbitrary sequence of pause, resume, start
\* and stop.
SpecCtl == InitApi /\ [][NextCtl]_vars

\* Time passes once the clock has reached MaxTime: the clock stays and every
\* time kept in the state moves one tick closer instead.  The state holds
\* times only to compare them with the clock, so this is the passing of a tick.
Sooner(x) == IF x > 0 THEN x - 1 ELSE x

TickOn ==
    /\ now = MaxTime
    /\ wake' = [t \in Threads |-> Sooner(wake[t])]
    /\ next_time' = Sooner(next_time)
    /\ warmup_until' = Sooner(warmup_until)
    /\ <<wake', next_time', warmup_until'>> # <<wake, next_time, warmup_until>>
    /\ UNCHANGED <<now, lock, avail, logfile, warmup_source, sched, pc, call,
                   warmup_left, cycle, locals>>

NextCtlFair == NextCtl \/ TickOn

\* The scheduler thread and its controller with time that does not stop and a
\* scheduler thread that is not starved: time.sleep() returns, and the thread
\* takes its next step when it can.
SpecCtlFair ==
    /\ InitApi
    /\ [][NextCtlFair]_vars
    /\ WF_vars(Tick)
    /\ WF_vars(TickOn)
    /\ WF_vars(Runner)
    /\ WF_vars(SampleNoWarmup("bg"))

\* ================================================== one sampling session
\* One caller of begin_sampling, is_ready and finish_sampling with any warmup
\* and any source, no scheduler thread started.  The caller keeps a record of
\* its calls in m:
\*   n       begin_sampling calls since its last finish_sampling (2: two or more)
\*   w, p    the arguments of its last begin_sampling
\*   at, ret the clock when that call was made and when it returned
\*   t       the clock when the call under way was made
\*   ready   what its last is_ready returned
\*   rat     the clock when that is_ready was called (None: none since the
\*           last begin_sampling)
SessWarmups == {-1, ButtonWarmup}
SessSources == {"button", "manual"}

NoSess ==
    [n |-> 0, w |-> 0, p |-> "", at |-> 0, ret |-> 0, t |-> 0,
     ready |-> TRUE, rat |-> None]

InitSess ==
    /\ now = 0
    /\ lock = "free"
    /\ avail \in BOOLEAN
    /\ logfile = <<HeaderRow>>
    /\ warmup_until = None
    /\ warmup_source = ""
    /\ stop_event = FALSE
    /\ pause_event = FALSE
    /\ alive = 0
    /\ pc = [t \in Threads |-> IF t = "fg" THEN "cli" ELSE "none"]
    /\ call = [t \in Threads |-> NoFrame]
    /\ wake = [t \in Threads |-> 0]
    /\ next_time = 0
    /\ warmup_left = 0
    /\ cycle = NoCycle
    /\ m = NoSess
    /\ finished = FALSE

\* The caller enters method op at place p.
SessEnter(p, op, source, log, warmup) ==
    /\ pc["fg"] = "cli"
    /\ call' = [call EXCEPT !["fg"] = Frame(op, source, log, warmup)]
    /\ pc' = [pc EXCEPT !["fg"] = p]
    /\ UNCHANGED <<now, lock, engine, sched, wake, runner, finished>>

\* air.begin_sampling(warmup_seconds, source)
SessBegin ==
    \E w \in SessWarmups, p \in SessSources :
        /\ SessEnter("bs_lock", "begin", p, FALSE, w)
        /\ m' = [m EXCEPT !.n = IF @ < 2 THEN @ + 1 ELSE @,
                          !.w = w, !.p = p, !.at = now, !.t = now,
                          !.ready = TRUE, !.rat = None]

\* air.is_ready()
SessIsReady ==
    /\ SessEnter("ir_lock", "is_ready", "", FALSE, 0)
    /\ m' = [m EXCEPT !.t = now, !.rat = now]

\* air.finish_sampling()
SessFinish ==
    /\ SessEnter("fs_lock", "finish", "", TRUE, 0)
    /\ m' = [m EXCEPT !.t = now]

\* The call is over.
SessReturn ==
    /\ pc["fg"] = "ret"
    /\ m' = IF call["fg"].op = "begin" THEN [m EXCEPT !.ret = now]
            ELSE IF call["fg"].op = "finish" THEN [m EXCEPT !.n = 0]
            ELSE [m EXCEPT !.ready = call["fg"].ready]
    /\ call' = [call EXCEPT !["fg"] = NoFrame]
    /\ pc' = [pc EXCEPT !["fg"] = "cli"]
    /\ UNCHANGED <<now, lock, engine, sched, wake, runner, finished>>

NextSess ==
    \/ Tick
    \/ SessBegin \/ SessIsReady \/ SessFinish \/ SessReturn
    \/ BsLock("fg") \/ BsBody("fg") \/ IrLock("fg") \/ IrBody("fg")
    \/ FsLock("fg") \/ FsBody("fg")
    \/ SampleNoWarmup("fg")

\* The engine under one caller of its sampling session.
SpecSess == InitSess /\ [][NextSess]_vars

\* ====================================================== the log on its own
\* _read_once, _append_log and get_last_logged applied one after the other by
\* one thread, over a range of chip answers and of files found at start.
MaxReads == 2       \* the _read_once calls made

\* ENS160 AQI values, the documented 1..5 and some outside.
AqiRange == -1 .. 6

\* The _read_once calls made: the chips' answer and the source passed.  Every
\* AQI of the range, and temperatures and humidities that round up, round
\* down, and are whole hundredths already.
LogCalls ==
    { [s |-> [temp_c |-> 22256, humidity |-> 55128, eco2_ppm |-> 800,
              tvoc_ppb |-> 120, aqi |-> a],
       source |-> "button"] : a \in AqiRange }
    \cup { [s |-> [temp_c |-> 21004, humidity |-> 40996, eco2_ppm |-> 400,
                   tvoc_ppb |-> 0, aqi |-> 1],
            source |-> "scheduled"],
           [s |-> [temp_c |-> 19500, humidity |-> 60250, eco2_ppm |-> 650,
                   tvoc_ppb |-> 35, aqi |-> 5],
            source |-> "scheduled"] }

\* A row of the engine's, left by an earlier run.
GoodRow ==
    CsvRow(AirReading(0, [temp_c |-> 20000, humidity |-> 50000, eco2_ppm |-> 500,
                          tvoc_ppb |-> 50, aqi |-> 2], "scheduled"))

\* A row of fewer than 8 fields (a blank or a cut line).
ShortRow == [HeaderRow EXCEPT !.n = 3, !.rating = "", !.source = ""]

\* A row of 8 fields whose numbers do not parse (a second header line).
BadRow == HeaderRow

\* The files __init__ can leave: _ensure_log_header writes the header into a
\* missing or empty file and leaves any other file as it finds it.
StartFiles ==
    { <<HeaderRow>>,
      <<HeaderRow, ShortRow>>,
      <<HeaderRow, BadRow>>,
      <<HeaderRow, GoodRow>>,
      <<HeaderRow, GoodRow, ShortRow>>,
      <<HeaderRow, GoodRow, BadRow>> }

InitLog ==
    /\ now = 0
    /\ lock = "free"
    /\ avail = TRUE
    /\ logfile \in StartFiles
    /\ warmup_until = None
    /\ warmup_source = ""
    /\ stop_event = FALSE
    /\ pause_event = FALSE
    /\ alive = 0
    /\ pc = [t \in Threads |-> IF t = "fg" THEN "log" ELSE "none"]
    /\ call = [t \in Threads |-> NoFrame]
    /\ wake = [t \in Threads |-> 0]
    /\ next_time = 0
    /\ warmup_left = 0
    /\ cycle = NoCycle
    /\ m = NoLocals
    /\ finished = FALSE

\* r = self._read_once(source), the chips answering; the read takes a tick
LogRead ==
    /\ pc["fg"] = "log"
    /\ call["fg"].reads < MaxReads
    /\ \E c \in LogCalls :
         call' = [call EXCEPT !["fg"].op = "read", !["fg"].source = c.source,
                              !["fg"].r = AirReading(now, c.s, c.source),
                              !["fg"].reads = @ + 1]
    /\ now' = now + 1
    /\ UNCHANGED <<lock, engine, sched, pc, wake, runner, locals>>

\* self._append_log(r): open(self.log_path, "a") makes a missing file
LogAppend ==
    /\ pc["fg"] = "log"
    /\ call["fg"].op = "read"
    /\ logfile' = Append(logfile, CsvRow(call["fg"].r))
    /\ call' = [call EXCEPT !["fg"].op = "append"]
    /\ m' = NoLocals
    /\ UNCHANGED <<now, lock, avail, warmup_until, warmup_source, sched, pc, wake,
                   runner, finished>>

\* last = self.get_last_logged()
LogLast ==
    /\ pc["fg"] = "log"
    /\ m' = [m EXCEPT !.reading = get_last_logged(logfile), !.tag = "last"]
    /\ UNCHANGED <<now, lock, engine, sched, pc, call, wake, runner, finished>>

\* lines 261-273 of sample_blocking: the fallback built from the last row
LogFallback ==
    /\ pc["fg"] = "log"
    /\ LET res == FallbackResult(get_last_logged(logfile))
       IN  m' = [m EXCEPT !.reading = res.r, !.exc = res.exc, !.tag = "fallback"]
    /\ UNCHANGED <<now, lock, engine, sched, pc, call, wake, runner, finished>>

\* A faulty variant of _ensure_log_header: the header is written whatever the
\* file holds.
EnsureHeaderAlways(f) == <<HeaderRow>>

\* lines 126-134: the header is written, with open(..., "w"), to a file that
\* is missing or empty
_ensure_log_header(f) == IF f = <<>> THEN <<HeaderRow>> ELSE f

\* AirSensor() is constructed again over the file as it is (the process is
\* started again): line 70
LogConstructed ==
    /\ pc["fg"] = "log"
    /\ logfile' = _ensure_log_header(logfile)
    /\ call' = [call EXCEPT !["fg"].op = "", !["fg"].r = NoReading]
    /\ m' = NoLocals
    /\ UNCHANGED <<now, lock, avail, warmup_until, warmup_source, sched, pc, wake,
                   runner, finished>>

\* The file is removed or emptied from outside the program.
LogRemoved ==
    /\ pc["fg"] = "log"
    /\ logfile # <<>>
    /\ logfile' = <<>>
    /\ m' = NoLocals
    /\ UNCHANGED <<now, lock, avail, warmup_until, warmup_source, sched, pc, call,
                   wake, runner, finished>>

NextLog ==
    \/ LogRead \/ LogAppend \/ LogLast \/ LogFallback
    \/ LogConstructed
    \/ LogRemoved

\* The log's three operations under any order of use.
SpecLog == InitLog /\ [][NextLog]_vars

\* ===================================================================== claims
\* t is executing a physical read (_read_once) or a log append (_append_log).
AtDevice(t) == pc[t] \in {"sb_read1", "sb_read2", "sb_append"}

\* t is inside the locked body of sample_blocking.
InBody(t) ==
    pc[t] \in {"sb_init", "sb_warm", "sb_read1", "sb_append", "sb_reinit", "sb_read2",
               "sb_fallback"}

\* The step is the return (or raise) of t's sample_blocking.
Returns(t) == InBody(t) /\ pc'[t] = "ret"

\* The file holds at least one reading.
HasReading(f) == Len(f) >= 2

\* The last row of the file.
LastRow(f) == f[Len(f)]

\* C1: at most one thread is executing a device read or a log append at any
\* time, and the thread that does holds the lock.
C1_Serialized ==
    /\ ~(AtDevice("fg") /\ AtDevice("bg"))
    /\ \A t \in Threads : AtDevice(t) => lock = t

\* C1's case: the scheduler is reading the device while the foreground's
\* finish_sampling waits for the lock.
C1_Witness == AtDevice("bg") /\ pc["fg"] = "sb_lock" /\ call["fg"].op = "finish"

\* C2 as stated: a sample_blocking(log=True) whose read succeeded has added
\* exactly one row to the file, and that row read back is the returned reading
\* in every field.
C2_EntryEqualsReading ==
    [][\A t \in Threads :
         (Returns(t) /\ call'[t].fresh /\ call'[t].log) =>
            /\ logfile' = Append(call[t].log0, LastRow(logfile'))
            /\ ParseRow(LastRow(logfile')) = call'[t].r]_vars

\* C2 amended: the row added is the returned reading in timestamp, eCO2, TVOC,
\* raw index, rating and provenance (the caller's), with temperature and
\* humidity rounded to a hundredth.
C2_EntryIsRoundedReading ==
    [][\A t \in Threads :
         (Returns(t) /\ call'[t].fresh /\ call'[t].log) =>
            LET r   == call'[t].r
                row == ParseRow(LastRow(logfile'))
            IN  /\ logfile' = Append(call[t].log0, LastRow(logfile'))
                /\ LastRow(logfile').n = 8
                /\ [row EXCEPT !.temp_c = 0, !.humidity = 0]
                     = [r EXCEPT !.temp_c = 0, !.humidity = 0]
                /\ r.source = call[t].source
                /\ row.temp_c % 10 = 0 /\ row.humidity % 10 = 0
                /\ 2 * (row.temp_c - r.temp_c) \in -10 .. 10
                /\ 2 * (row.humidity - r.humidity) \in -10 .. 10]_vars

\* C2's case: a call with log=True has returned a fresh reading and the file
\* is one row longer than when the call began.
C2_Witness ==
    \E t \in Threads :
        /\ pc[t] = "ret" /\ call[t].fresh /\ call[t].log
        /\ Len(logfile) = Len(call[t].log0) + 1

\* C3: a sample_blocking whose two reads failed while the file held a reading
\* returns a reading of provenance "fallback" whose measurements are those of
\* the last logged entry, and leaves the file as it was.
C3_Fallback ==
    [][\A t \in Threads :
         (Returns(t) /\ ~call'[t].fresh /\ HasReading(call[t].log0)) =>
            LET r    == call'[t].r
                last == ParseRow(LastRow(call[t].log0))
            IN  /\ call'[t].reads = 2
                /\ call'[t].exc = ""
                /\ r.source = "fallback"
                /\ r.temp_c = last.temp_c /\ r.humidity = last.humidity
                /\ r.eco2_ppm = last.eco2_ppm /\ r.tvoc_ppb = last.tvoc_ppb
                /\ r.aqi = last.aqi /\ r.rating = last.rating
                /\ logfile' = call[t].log0
                /\ logfile' = logfile]_vars

\* C3's case: a call has returned a fallback reading, the file holding a row.
C3_Witness ==
    \E t \in Threads :
        /\ pc[t] = "ret" /\ call[t].reads = 2 /\ ~call[t].fresh
        /\ call[t].r.source = "fallback" /\ HasReading(logfile)


\* C4: a sample_blocking whose two reads failed while the file held no
\* reading ends with the no-fallback error, returns no reading and leaves the
\* file as it was.
C4_NoFallback ==
    [][\A t \in Threads :
         (Returns(t) /\ ~call'[t].fresh /\ ~HasReading(call[t].log0)) =>
            /\ call'[t].reads = 2
            /\ call'[t].exc = "nofallback"
            /\ call'[t].r = NoReading
            /\ logfile' = call[t].log0
            /\ logfile' = logfile]_vars

\* C4's case: a call has raised the no-fallback error over a header-only file.
C4_Witness ==
    \E t \in Threads :
        pc[t] = "ret" /\ call[t].exc = "nofallback" /\ logfile = <<HeaderRow>>

\* C5: sample_blocking raises only the no-fallback error, and only after two
\* failed reads over a file without a reading; when the file held a reading
\* as the call began, it returns a reading.
C5_RaisesOnlyWithoutData ==
    [][\A t \in Threads :
         Returns(t) =>
            /\ call'[t].exc \in {"", "nofallback"}
            /\ call'[t].exc = "nofallback" =>
                  ~HasReading(call[t].log0) /\ call'[t].reads = 2 /\ ~call'[t].fresh
            /\ HasReading(call[t].log0) =>
                  call'[t].exc = "" /\ call'[t].r # NoReading]_vars

\* C5's case: over a file that holds a reading, a call whose re-initialization
\* failed (no chip is set) has returned a reading all the same.
C5_Witness ==
    \E t \in Threads :
        /\ pc[t] = "ret" /\ call[t].reads = 2 /\ ~avail
        /\ HasReading(call[t].log0) /\ call[t].r # NoReading /\ call[t].exc = ""

\* C6: no row of the file has provenance "fallback": every row after the
\* header is a "button" or a "scheduled" one.
C6_NoFallbackLogged ==
    \A i \in 2 .. Len(logfile) : logfile[i].source \in {"button", "scheduled"}

\* C6's case: a sampling cycle has ended with a fallback reading, copied from
\* the file's last row, and the file has not grown by it.
C6_Witness ==
    \E t \in Threads :
        /\ pc[t] = "ret" /\ call[t].r.source = "fallback"
        /\ logfile = call[t].log0
        /\ LastRow(logfile).source \in {"button", "scheduled"}

\* The orchestrator's states Idle, Settings and Displaying.
AtRest == pc["fg"] \in {"idle", "settings", "displaying"}

\* C7: the pause flag is clear whenever the orchestrator is in Idle, Settings
\* or Displaying: every sampling attempt ends with resume, however
\* finish_sampling ended.
C7_ResumedAtRest == AtRest => ~pause_event

\* C7's case: the orchestrator is back in Idle after a sampling attempt that
\* raised and found no last reading to show.
C7_Witness == pc["fg"] = "idle" /\ m.skip /\ ~pause_event

\* C8 as stated: a cycle in whose warmup the pause flag was set is abandoned:
\* the loop goes to no device read and no log append in it, and the cycle ends
\* with the next attempt set about a second ahead, sooner than a full interval.
C8_PausedCycleAbandoned ==
    [][cycle.paused =>
          /\ pc'["bg"] \notin {"sb_read1", "sb_read2", "sb_append"}
          /\ cycle' = NoCycle =>
                next_time' = now + RetrySoon /\ next_time' < now + SchedInterval]_vars

\* C9: finish_sampling over an open session raises "warmup not complete" when
\* the deadline has not passed, reading nothing, appending nothing and leaving
\* the session as it is; once the deadline has passed it does not raise, clears
\* the session and goes on to sample.
C9_PrematureFinish ==
    [][(pc["fg"] = "fs_body" /\ pc'["fg"] # "fs_body" /\ warmup_until # None) =>
          IF now < warmup_until
            THEN /\ call'["fg"].exc = "warmup"
                 /\ pc'["fg"] = "ret"
                 /\ call'["fg"].reads = 0 /\ call'["fg"].r = NoReading
                 /\ UNCHANGED <<logfile, warmup_until, warmup_source>>
            ELSE /\ call'["fg"].exc = ""
                 /\ pc'["fg"] = "sb_lock"
                 /\ call'["fg"].source = warmup_source
                 /\ warmup_until' = None /\ warmup_source' = ""]_vars

\* C9's case: finish_sampling has raised "warmup not complete" and the session
\* is still open, its deadline ahead.
C9_Witness ==
    /\ pc["fg"] = "ret" /\ call["fg"].op = "finish" /\ call["fg"].exc = "warmup"
    /\ warmup_until # None /\ now < warmup_until /\ warmup_source = "button"

\* The client's finish_sampling has returned (or raised) after an earlier one
\* consumed the session, no begin_sampling in between.
SecondFinish == finished /\ pc["fg"] = "ret" /\ call["fg"].op = "finish"

\* C10 as stated: that second finish_sampling fails, without a device read.
C10_SecondFinishFails ==
    SecondFinish => call["fg"].exc # "" /\ call["fg"].reads = 0

\* C10 amended: the session is cleared, and the second finish_sampling does
\* not fail for the warmup: it samples with provenance "button", reading the
\* device, and raises only the no-fallback error.
C10_SecondFinishSamples ==
    /\ finished => warmup_until = None /\ warmup_source = ""
    /\ SecondFinish =>
          /\ ~call["fg"].session
          /\ call["fg"].source = "button"
          /\ call["fg"].reads >= 1
          /\ call["fg"].exc \in {"", "nofallback"}
          /\ call["fg"].fresh => call["fg"].r.source = "button"

\* C10's case: the second finish_sampling has read the device and appended
\* the reading to the file.
C10_Witness ==
    /\ SecondFinish /\ call["fg"].fresh /\ call["fg"].log
    /\ LastRow(logfile) = CsvRow(call["fg"].r)

\* C11 as stated: a foreground sample that failed with the no-fallback error
\* is followed by the error screen and then Idle, never Displaying, with the
\* pause flag clear.
C11_NoFallbackToIdle ==
    [][/\ (pc["fg"] = "m_except" /\ m.exc = "nofallback" /\ pc'["fg"] # "m_except")
            => pc'["fg"] = "m_error"
       /\ (pc["fg"] = "m_finally" /\ m.exc = "nofallback" /\ pc'["fg"] # "m_finally")
            => pc'["fg"] = "idle" /\ ~pause_event']_vars

\* C11 amended: after a foreground sample that failed with the no-fallback
\* error the orchestrator looks the log up once more.  When it still holds no
\* reading (as it does whenever no scheduled read succeeds meanwhile), the error
\* screen is shown and the orchestrator goes back to Idle without Displaying,
\* the pause flag clear; a reading the scheduler appended since the failure is
\* displayed as cached.  The error screen is shown in no other case.
C11_NoDataToIdle ==
    [][/\ (pc["fg"] = "m_except" /\ m.exc = "nofallback" /\ pc'["fg"] # "m_except") =>
            IF get_last_logged(logfile) = NoReading
              THEN pc'["fg"] = "m_error"
              ELSE /\ pc'["fg"] = "m_finally"
                   /\ m'.reading = get_last_logged(logfile) /\ m'.cached
       /\ pc["fg"] = "m_error" =>
            /\ m.exc = "nofallback" /\ m.reading = NoReading
            /\ pc'["fg"] \in {"m_error", "m_finally"}
            /\ pc'["fg"] = "m_finally" => m'.skip
       /\ (pc["fg"] = "m_finally" /\ m.skip /\ pc'["fg"] # "m_finally") =>
            pc'["fg"] = "idle" /\ ~pause_event'
       /\ pc["fg"] = "displaying" => ~m.skip /\ m.reading # NoReading]_vars

\* C11's case: the orchestrator is back in Idle from the error screen, after a
\* no-fallback failure over a log that holds only its header.
C11_Witness ==
    /\ pc["fg"] = "idle" /\ m.exc = "nofallback" /\ m.skip /\ m.reading = NoReading
    /\ logfile = <<HeaderRow>> /\ ~pause_event

Rated(r) == r.rating = _rating_from_aqi(r.aqi)

\* C13: the mapping gives "Very good" up to 1, "Good" at 2, "Ok" at 3 and "Poor"
\* from 4 on, for every raw index; and every reading read from the chips,
\* every row appended, every reading read back from the log and every fallback
\* reading has the rating its own raw index maps to.
C13_RatingFromIndex ==
    /\ \A i \in AqiRange :
         /\ _rating_from_aqi(i) \in {"Very good", "Good", "Ok", "Poor"}
         /\ _rating_from_aqi(i) = "Very good" <=> i <= 1
         /\ _rating_from_aqi(i) = "Good" <=> i = 2
         /\ _rating_from_aqi(i) = "Ok" <=> i = 3
         /\ _rating_from_aqi(i) = "Poor" <=> i >= 4
    /\ call["fg"].r # NoReading => Rated(call["fg"].r)
    /\ m.reading # NoReading => Rated(m.reading)
    /\ \A i \in 1 .. Len(logfile) :
         logfile[i].n = 8 /\ logfile[i].num => Rated(logfile[i])

\* C13's case: a fallback reading copied from an appended row of raw index 3
\* carries the rating "Ok".
C13_Witness ==
    /\ call["fg"].op = "append" /\ call["fg"].r.aqi = 3
    /\ m.tag = "fallback" /\ m.reading.source = "fallback"
    /\ m.reading.aqi = 3 /\ m.reading.rating = "Ok"

\* C14: in every sample_blocking call at most two reads and one
\* re-initialization are made; the re-initialization follows a failed first
\* read and the second read follows the re-initialization; the fallback lookup
\* is reached, and a fallback reading returned, only after the second read
\* failed; and the call raises only from the lookup, when it found nothing.
C14_RecoveryOrder ==
    [][\A t \in Threads :
         LET f == call[t]
         IN  /\ f.reads \in 0 .. 2 /\ f.reinits \in 0 .. 1
             /\ f.reinits = 1 => f.reads >= 1
             /\ f.reads = 2 => f.reinits = 1
             /\ pc[t] = "sb_read1" => f.reads = 0 /\ f.reinits = 0
             /\ pc[t] = "sb_reinit" => f.reads = 1 /\ f.reinits = 0 /\ ~f.fresh
             /\ pc[t] = "sb_read2" => f.reads = 1 /\ f.reinits = 1 /\ ~f.fresh
             /\ pc[t] = "sb_fallback" => f.reads = 2 /\ ~f.fresh
             /\ f.r.source = "fallback" => f.reads = 2 /\ ~f.fresh
             /\ (Returns(t) /\ call'[t].exc = "nofallback") =>
                   /\ pc[t] = "sb_fallback"
                   /\ get_last_logged(logfile) = NoReading
                   /\ call'[t].r = NoReading]_vars

\* C14's case: a call has returned the reading of its second read, made after
\* the first failed and the chips were set up again.
C14_Witness ==
    \E t \in Threads :
        /\ pc[t] = "ret" /\ call[t].op \in {"sample", "finish"}
        /\ call[t].reads = 2 /\ call[t].reinits = 1 /\ call[t].fresh

\* get_last_logged has been called on the file as the append of call["fg"].r
\* to a file that was not empty left it.
ReadBack == m.tag = "last" /\ call["fg"].op = "append" /\ Len(logfile) >= 2

WellFormed(f, i) == i >= 2 /\ f[i].n = 8 /\ f[i].num

\* C16: get_last_logged returns None over a missing or empty file, a file with
\* only its header, and a file whose rows are all malformed; whatever it
\* returns otherwise is a well-formed row of the file; and it leaves the file
\* as it is.
C16_LastNeverFails ==
    [][m'.tag = "last" =>
          /\ (\A i \in 1 .. Len(logfile') : ~WellFormed(logfile', i))
                => m'.reading = NoReading
          /\ m'.reading # NoReading =>
                \E i \in 1 .. Len(logfile') :
                    WellFormed(logfile', i) /\ m'.reading = ParseRow(logfile'[i])
          /\ m.tag # "last" => logfile' = logfile]_vars

\* C16's case: get_last_logged has returned None over a file whose only row
\* after the header does not parse.
C16_Witness ==
    m.tag = "last" /\ m.reading = NoReading /\ logfile = <<HeaderRow, BadRow>>

\* C17: when the scheduler's sample_blocking call has raised, the call has
\* added no row, and the loop's next step absorbs the error: the thread stays
\* alive, the file is left alone, the next attempt is set one interval ahead,
\* as it is after a call that returned, and the loop goes to its 0.2 s sleep
\* on the way back to the top.
C17_FailureAbsorbed ==
    [][(pc["bg"] = "ret" /\ pc'["bg"] # "ret") =>
          /\ call["bg"].op = "sample" /\ call["bg"].source = "scheduled"
          /\ call["bg"].exc \in {"", "nofallback"}
          /\ call["bg"].exc # "" => logfile = call["bg"].log0 /\ call["bg"].r = NoReading
          /\ next_time' = now + SchedInterval
          /\ pc'["bg"] = "run_nap" /\ wake'["bg"] = now + Slice
          /\ alive = 1 /\ alive' = 1
          /\ logfile' = logfile]_vars

\* C17's case: the loop is in its sleep after a scheduled call that raised over
\* an empty log, the next attempt one interval ahead and no row written.
C17_Witness ==
    /\ pc["bg"] = "run_nap" /\ alive = 1
    /\ next_time = now + SchedInterval /\ wake["bg"] = now + Slice
    /\ logfile = <<HeaderRow>>

\* The _runner thread of the model is running its loop.
Running == pc["bg"] \notin {"none", "dead"}

\* C18: at most one _runner thread is alive at any time, the one running the
\* loop; a thread is made, and the stop flag cleared, only by a start that
\* finds none alive; a start that finds one alive changes no flag of the
\* scheduler and nothing of the running loop.
C18_OneLoop ==
    [][/\ alive \in {0, 1} /\ (alive = 1 <=> Running)
       /\ alive' > alive => alive = 0 /\ CtlStart /\ pc'["bg"] = "run_init"
       /\ (stop_event /\ ~stop_event') => alive = 0 /\ CtlStart
       /\ (CtlStart /\ alive = 1) =>
             /\ UNCHANGED <<stop_event, pause_event, alive, runner>>
             /\ pc'["bg"] = pc["bg"] /\ call'["bg"] = call["bg"]]_vars

\* C18's case: start has been called while the loop was alive with the stop
\* flag set (after a stop whose join timed out), and has changed nothing.
C18_Witness ==
    /\ pc["fg"] = "cli" /\ call["fg"].op = "start"
    /\ alive = 1 /\ Running /\ stop_event

C20_WarmupYields ==
    /\ [](InWarmup => lock # "bg")
    /\ [](lock = "bg" => InBody("bg") /\ call["bg"].warmup = 0)
    /\ [](cycle.after <= 1)
    /\ [][cycle.paused => pc'["bg"] # "sb_lock"]_vars

\* The deadline of the session that the caller's last begin_sampling opened:
\* not before the call was made plus its warmup, not after its return plus it.
SessWait == IF m.w > 0 THEN m.w ELSE 0

\* C21: after two begin_sampling calls with no finish_sampling between them,
\* is_ready and finish_sampling go by the deadline of the second call alone,
\* and the reading finish_sampling returns has the second call's source, or
\* "fallback".
C21_LastBeginWins ==
    pc["fg"] = "ret" /\ m.n = 2 =>
        /\ call["fg"].op = "is_ready" =>
              /\ call["fg"].ready => now >= m.at + SessWait
              /\ ~call["fg"].ready => m.t < m.ret + SessWait
        /\ call["fg"].op = "finish" =>
              /\ call["fg"].exc = "warmup" => m.t < m.ret + SessWait
              /\ call["fg"].exc # "warmup" =>
                    /\ now >= m.at + SessWait
                    /\ call["fg"].source = m.p
                    /\ call["fg"].r # NoReading =>
                          call["fg"].r.source \in {m.p, "fallback"}

\* A session of warmup ButtonWarmup and source "button" was replaced by one
\* of no warmup and source "manual", and finish_sampling, called at once,
\* returned a reading of source "manual".
C21_Witness ==
    /\ pc["fg"] = "ret"
    /\ m.n = 2
    /\ call["fg"].op = "finish"
    /\ call["fg"].r # NoReading
    /\ call["fg"].r.source = "manual"
    /\ now < ButtonWarmup

\* C22 as claimed: begin_sampling never waits for another thread; whenever the
\* caller is at its `with self._lock:`, it can enter.
C22_BeginNeverWaits == pc["fg"] = "bs_lock" => lock = "free"

\* C22: begin_sampling does not wait for the warmup.  It waits for the lock
\* alone, which only the scheduler thread can hold then, inside a
\* sample_blocking call with no warmup and no sleep; having the lock, it opens
\* the session and returns with the lock free before any time passes.
C22_BeginWaitsForLockOnly ==
    /\ [](pc["fg"] = "bs_lock" /\ lock # "free" =>
              /\ lock = "bg"
              /\ InBody("bg")
              /\ call["bg"].warmup = 0
              /\ wake["bg"] = 0)
    /\ [](pc["fg"] = "bs_body" => lock = "fg")
    /\ [][pc["fg"] = "bs_body" /\ pc'["fg"] # "bs_body" =>
              /\ pc'["fg"] = "ret"
              /\ now' = now
              /\ lock' = "free"
              /\ warmup_until' # None
              /\ warmup_until' >= now]_vars

\* begin_sampling is called with a warmup while the scheduler thread is at its
\* device read, holding the lock.
C22_Witness ==
    /\ pc["fg"] = "bs_lock"
    /\ call["fg"].warmup = ButtonWarmup
    /\ lock = "bg"
    /\ pc["bg"] = "sb_read1"

\* Whether a session is open whose deadline has not passed.
SessionWaiting == warmup_until # None /\ now < warmup_until

\* C23: is_ready answers true exactly when no session is open or the open
\* session's deadline has passed, and changes nothing of the engine;
\* finish_sampling raises "Warmup not complete yet" exactly where is_ready
\* answers false: a finish_sampling that ends at the clock value at which the
\* last is_ready was called, with no begin_sampling in between, raises it
\* exactly when that is_ready answered false.
C23_ReadyAgreesWithFinish ==
    /\ [][/\ pc["fg"] = "ir_body" /\ pc'["fg"] # "ir_body" =>
                call'["fg"].ready = ~SessionWaiting
          /\ pc["fg"] \in {"ir_lock", "ir_body"} =>
                UNCHANGED <<engine, sched, runner>>
          /\ pc["fg"] = "fs_body" /\ pc'["fg"] # "fs_body" =>
                (call'["fg"].exc = "warmup") = SessionWaiting]_vars
    /\ [](pc["fg"] = "ret" /\ call["fg"].op = "finish" /\ m.rat = now =>
              (call["fg"].exc = "warmup") = ~m.ready)

\* is_ready answered false and finish_sampling, called within the same tick,
\* raised "Warmup not complete yet".
C23_Witness ==
    /\ pc["fg"] = "ret"
    /\ call["fg"].op = "finish"
    /\ m.rat = now
    /\ ~m.ready
    /\ call["fg"].exc = "warmup"

\* f is an initial part of g.
IsPrefix(f, g) == Len(f) <= Len(g) /\ SubSeq(g, 1, Len(f)) = f

\* C24: no step of the engine (construction included) takes a row from the
\* file or changes one: the file before the step is an initial part of the
\* file after it, which holds at most one row more; and the header is written
\* only to a file that is missing or empty.
C24_AppendOnly ==
    [][~LogRemoved =>
          /\ IsPrefix(logfile, logfile')
          /\ Len(logfile') <= Len(logfile) + 1
          /\ logfile' = Append(logfile, HeaderRow) => logfile = <<>>]_vars

\* Rows were appended to a file that held rows when the engine was
\* constructed over it, and every row is still in its place.
C24_Witness ==
    /\ Len(logfile) >= 4
    /\ SubSeq(logfile, 1, 3) = <<HeaderRow, GoodRow, ShortRow>>
    /\ call["fg"].op = "append"

\* The caller's finish_sampling has passed its deadline check and has not
\* returned: lines 300-308, the delegated sample_blocking included.
FinishUnderWay ==
    /\ call["fg"].op = "finish"
    /\ pc["fg"] = "fs_body" \/ pc["fg"] = "sb_lock" \/ InBody("fg")

\* C25 as claimed: from its deadline check to the end of the delegated read no
\* other thread executes a sample_blocking body.
C25_FinishIsOneSection == FinishUnderWay => ~InBody("bg")

\* C25: finish_sampling holds the lock in two sections, lines 299-306 (check
\* and clearing) and the body of the sample_blocking it calls at line 308,
\* with the lock released in between; inside either section no other thread
\* is in a body, between them the scheduler thread can be.
C25_FinishIsTwoSections ==
    /\ pc["fg"] = "fs_body" => lock = "fg"
    /\ call["fg"].op = "finish" /\ InBody("fg") => lock = "fg"
    /\ call["fg"].op = "finish" /\ pc["fg"] = "sb_lock" => lock # "fg"
    /\ lock = "fg" => ~InBody("bg")
    /\ InBody("bg") => lock = "bg"

\* finish_sampling has cleared the session and waits at line 237 while the
\* scheduler thread, which took the lock in between, appends its row.
C25_Witness ==
    /\ call["fg"].op = "finish"
    /\ pc["fg"] = "sb_lock"
    /\ warmup_until = None
    /\ lock = "bg"
    /\ pc["bg"] = "sb_append"

\* C26: the _runner calls sample_blocking only in a cycle whose warmup was
\* slept to its end: nothing is left of SchedWarmup.
C26_WarmupComplete ==
    [][pc["bg"] = "run_chks" /\ pc'["bg"] = "sb_lock" =>
          cycle.warming /\ warmup_left = 0]_vars

\* C27 as claimed: the pause flag is clear in the state in which the _runner
\* calls sample_blocking.
C27_CallsBeginUnpaused ==
    [][pc["bg"] = "run_chks" /\ pc'["bg"] = "sb_lock" => ~pause_event]_vars

\* C27: the _runner calls sample_blocking only straight after its test of the
\* pause flag at line 366 found the flag clear, and with the flag set it
\* passes none of its three tests of it (346, 358, 366): a call that begins
\* with the flag set is one whose test came before the flag was set.
C27_CallsFollowClearTest ==
    [][/\ pc["bg"] # "sb_lock" /\ pc'["bg"] = "sb_lock" => pc["bg"] = "run_chks"
       /\ pc["bg"] # "run_chks" /\ pc'["bg"] = "run_chks" =>
             pc["bg"] = "run_chkp" /\ ~pause_event
       /\ pause_event /\ pc["bg"] = "run_pause" /\ pc'["bg"] # "run_pause" =>
             pc'["bg"] = "run_nap"
       /\ pause_event /\ pc["bg"] = "run_wpause" /\ pc'["bg"] # "run_wpause" =>
             pc'["bg"] = "run_chkp"
       /\ pause_event /\ pc["bg"] = "run_chkp" /\ pc'["bg"] # "run_chkp" =>
             pc'["bg"] = "run_top" /\ next_time' = now + RetrySoon]_vars

\* The pause flag is set while the scheduled sample_blocking call is at its
\* device read.
C27_Witness ==
    /\ pause_event
    /\ pc["bg"] = "sb_read1"
    /\ call["bg"].source = "scheduled"

\* C28: once start_periodic_logging() has returned, and until
\* stop_periodic_logging() is called again, a _runner is alive with the stop
\* flag clear.
C28_StartedLoopRuns ==
    pc["fg"] = "cli" /\ call["fg"].op = "start" => Running /\ ~stop_event

\* t is inside one of the engine's `with self._lock:` blocks.
InSection(t) == InBody(t) \/ pc[t] \in {"bs_body", "ir_body", "fs_body"}

\* t is at the `with self._lock:` of an engine operation.
AtLock(t) == pc[t] \in {"sb_lock", "bs_lock", "ir_lock", "fs_lock"}

\* C29: the lock is held by a thread exactly while the thread is inside a
\* `with self._lock:` block, so a thread that has left an engine operation, by
\* return or raise, does not hold it; and a thread that waits for the lock
\* waits for a thread that is inside a block and not asleep.
C29_LockReleased ==
    /\ \A t \in Threads : lock = t <=> InSection(t)
    /\ \A t \in Threads : AtLock(t) /\ lock # "free" =>
          \E u \in Threads \ {t} : lock = u /\ InSection(u) /\ wake[u] = 0

\* The caller's finish_sampling has raised "Sensor read failed and no fallback
\* record exists", and the scheduler thread has the lock for its own call.
C29_Witness ==
    /\ pc["fg"] = "ret"
    /\ call["fg"].op = "finish"
    /\ call["fg"].exc = "nofallback"
    /\ lock = "bg"

\* The _runner is at the device read of a scheduled call made after a warmup
\* slept to its end.
ScheduledRead ==
    /\ pc["bg"] = "sb_read1"
    /\ call["bg"].source = "scheduled"
    /\ cycle.warming
    /\ warmup_left = 0

\* C30: if from some moment on the stop flag and the pause flag stay clear,
\* the _runner again and again completes a warmup and makes its scheduled
\* sample_blocking call; after each call the next cycle is due one interval
\* later.
C30_KeepsLogging ==
    /\ <>[](~stop_event /\ ~pause_event) => []<>ScheduledRead
    /\ [][pc["bg"] = "ret" /\ pc'["bg"] # "ret" =>
              next_time' = now + SchedInterval]_vars

\* The _runner is at the device read of a later cycle: the file holds the row
\* of an earlier scheduled sample.
C30_Witness ==
    /\ ScheduledRead
    /\ ~stop_event
    /\ ~pause_event
    /\ Len(logfile) >= 2
    /\ LastRow(logfile).source = "scheduled"

\* t is in sample_blocking, from its call to its return.
InSample(t) == pc[t] = "sb_lock" \/ InBody(t)

\* C31: no step of sample_blocking, by either thread, changes the session's
\* deadline or source; they change only in begin_sampling's and
\* finish_sampling's own blocks.  So a finish_sampling that found the session
\* of an earlier begin_sampling open samples with that call's source, and the
\* reading it returns has that source, or "fallback".
C31_SampleKeepsSession ==
    /\ [][/\ (\E t \in Threads : InSample(t) /\ pc'[t] # pc[t]) =>
                UNCHANGED <<warmup_until, warmup_source>>
          /\ <<warmup_until, warmup_source>>' # <<warmup_until, warmup_source>> =>
                pc["fg"] \in {"bs_body", "fs_body"}
          /\ pc["fg"] = "fs_body" /\ pc'["fg"] = "sb_lock" /\ warmup_until # None =>
                call'["fg"].source = "manual"]_vars
    /\ [](call["fg"].op = "finish" /\ call["fg"].session /\ call["fg"].r # NoReading =>
              call["fg"].r.source \in {"manual", "fallback"})

\* The scheduler thread has returned from a sample whose reading it took after
\* the caller's begin_sampling, and the session is as that call left it.
C31_Witness ==
    /\ pc["fg"] = "cli"
    /\ warmup_source = "manual"
    /\ warmup_until # None
    /\ pc["bg"] = "ret"
    /\ call["bg"].source = "scheduled"
    /\ call["bg"].r # NoReading
    /\ call["bg"].r.source = "scheduled"
    /\ call["bg"].r.timestamp_iso > warmup_until - ButtonWarmup
====
